---- MODULE Spec2Model ----
(***************************************************************************)
(* Notice interpretation engine of AGT-DASHBOARD (scrape_notices.py).      *)
(*                                                                         *)
(* Text representation.  A Python string is a sequence of tokens; a token  *)
(* is a TLA+ string standing for a run of characters that the program's    *)
(* patterns never split (a phrase, a percentage, a date, one separator     *)
(* character).  A multi-line text is the sequence of its lines joined by   *)
(* "\n" with no newline after the last line.  Python's None is the value   *)
(* None below; an optional string is None or Some(tokens).                 *)
(***************************************************************************)
EXTENDS Integers, Sequences, FiniteSets, TLC

VARIABLES
    \* parse_restriction_table
    lines, idx, current_location, current_scheduled, current_priorities,
    restrictions, pc, result,
    \* extract_notice_insights
    text, notice_type, notice_date, npc, invoked, insights,
    \* notices.db
    tables, notices_table, restrictions_table, runs

pvars == <<lines, idx, current_location, current_scheduled,
           current_priorities, restrictions, pc, result>>
nvars == <<text, notice_type, notice_date, npc, invoked, insights>>
dvars == <<tables, notices_table, restrictions_table, runs>>
vars == <<lines, idx, current_location, current_scheduled,
          current_priorities, restrictions, pc, result,
          text, notice_type, notice_date, npc, invoked, insights,
          tables, notices_table, restrictions_table, runs>>

\* ------------------------------------------------------------------------
\* Bounds
\* ------------------------------------------------------------------------
MaxLines == 4
MaxTextLines == 3
MaxNotices == 3
MaxRuns == 2

SeqsUpTo(S, n) == UNION {[1..k -> S] : k \in 0..n}

\* ------------------------------------------------------------------------
\* Python values
\* ------------------------------------------------------------------------
None == [none |-> TRUE, val |-> <<>>]
Some(v) == [none |-> FALSE, val |-> v]
\* truth value of an optional string: None and "" are falsy
Truthy(o) == ~o.none /\ o.val # <<>>

\* A list held in a `restrictions` slot: None, a list of dicts (rows) or a
\* list of strings (raw lines).  The empty list is the same value either way.
PyNone == [tag |-> "None", dicts |-> <<>>, strs |-> <<>>]
PyDictList(rows) == [tag |-> "list", dicts |-> rows, strs |-> <<>>]
PyStrList(ls) == [tag |-> "list", dicts |-> <<>>, strs |-> ls]
PyEmptyList == [tag |-> "list", dicts |-> <<>>, strs |-> <<>>]

\* ------------------------------------------------------------------------
\* str methods on token sequences
\* ------------------------------------------------------------------------
Whitespace == {" ", "\t"}

RECURSIVE lstrip(_)
lstrip(s) ==
    IF s # <<>> /\ Head(s) \in Whitespace THEN lstrip(Tail(s)) ELSE s

RECURSIVE rstrip(_)
rstrip(s) ==
    IF s # <<>> /\ s[Len(s)] \in Whitespace
    THEN rstrip(SubSeq(s, 1, Len(s) - 1))
    ELSE s

strip(s) == rstrip(lstrip(s))

LowerTok(t) ==
    CASE t = "Restricted Locations" -> "restricted locations"
      [] t = "Scheduled and Sealed" -> "scheduled and sealed"
      [] t = "Algonquin Citygate" -> "algonquin citygate"
      [] t = "Stony Point" -> "stony point"
      [] t = "Yes" -> "yes"
      [] t = "NO" -> "no"
      [] t = "No-Notice Restrictions" -> "no-notice restrictions"
      [] t = "Capacity Constraint" -> "capacity constraint"
      [] t = "CAPACITY CONSTRAINT" -> "capacity constraint"
      [] t = "Operational Flow Order" -> "operational flow order"
      [] t = "OFO" -> "ofo"
      [] t = "Other" -> "other"
      [] t = "Notice" -> "notice"
      [] t = "For" -> "for"
      [] t = "Gas Day" -> "gas day"
      [] t = "July 1" -> "july 1"
      [] t = "July 4" -> "july 4"
      [] t = "Lifting the Operational Flow Order" ->
             "lifting the operational flow order"
      [] t = "Effective" -> "effective"
      [] t = "July 3, 2024" -> "july 3, 2024"
      [] t = "June 30, 2024" -> "june 30, 2024"
      [] t = "9:00 AM CCT, July 1, 2024" -> "9:00 am cct, july 1, 2024"
      [] t = "9:00 AM CCT, July 5, 2024" -> "9:00 am cct, july 5, 2024"
      [] OTHER -> t

lower(s) == [i \in 1..Len(s) |-> LowerTok(s[i])]

\* <<t, p>>: the lower-case token t contains the phrase p as a proper
\* substring; Prefixes are the pairs where t also begins with p.
Prefixes == {
    <<"no-notice restrictions", "no-notice">>,
    <<"lifting the operational flow order", "lifting">> }
Substrings == Prefixes \cup {
    <<"of their no-notice", "no-notice">>,
    <<"lifting the operational flow order", "operational flow order">>,
    <<"lifting the operational flow order",
      "lifting the operational flow order">> }

\* `p in s` for an already lower-cased s
Contains(s, p) ==
    \E i \in 1..Len(s) : s[i] = p \/ <<s[i], p>> \in Substrings

\* s.startswith(p)
StartsWith(s, p) ==
    s # <<>> /\ (s[1] = p \/ <<s[1], p>> \in Prefixes)

\* tokens whose first character is not an ASCII letter
Digitish == {"50%", "40%", "10%", "20%", "30%", "60%", "85%", "100%", "(10%",
             ",", " ", "\t", "2024", "-", "; ", " (Until Further Notice)",
             "9:00 AM CCT, July 1, 2024", "9:00 AM CCT, July 5, 2024",
             "9:00 am cct, july 1, 2024", "9:00 am cct, july 5, 2024"}
StartsWithLetter(s) == s # <<>> /\ s[1] \notin Digitish

\* \(?\d+%
PercentToks == {"50%", "40%", "10%", "20%", "30%", "60%", "85%", "100%",
                "(10%"}
\* \d+%
BarePercentToks == PercentToks \ {"(10%"}

\* ------------------------------------------------------------------------
\* classify_line_type
\* ------------------------------------------------------------------------
\* re.match(r"^restricted locations\s+", s)
MatchHeader(s) ==
    Len(s) >= 2 /\ s[1] = "restricted locations" /\ s[2] \in Whitespace

\* re.match(r"^(yes|no)$", s)
MatchYesNo(s) == Len(s) = 1 /\ s[1] \in {"yes", "no"}

\* re.match(r"^(\(?\d+%[,\s]*)+$", s)
MatchPercents(s) ==
    /\ s # <<>>
    /\ s[1] \in PercentToks
    /\ \A i \in 1..Len(s) : s[i] \in PercentToks \cup {","} \cup Whitespace

classify_line_type(l) ==
    LET line == strip(l) IN
    IF \/ line = <<>>
       \/ StartsWith(lower(line), "no-notice")
       \/ Contains(lower(line), "ferc")
       \/ Contains(lower(line), "systemwide")
    THEN "SEPARATOR"
    ELSE IF MatchHeader(lower(line)) THEN "HEADER"
    ELSE IF MatchYesNo(lower(line)) THEN "SCHEDULED_ROW"
    ELSE IF MatchPercents(line) THEN "PERCENT_ROW"
    ELSE IF StartsWithLetter(line) THEN "LOCATION_ROW"
    ELSE "UNKNOWN"

\* ------------------------------------------------------------------------
\* parse_restriction_table
\* ------------------------------------------------------------------------
\* re.split(r"[, ]+", line): the maximal runs of tokens other than "," and
\* " " (a tab is not a delimiter), including empty leading/trailing pieces
RECURSIVE SplitFrom(_, _, _)
SplitFrom(s, i, piece) ==
    IF i > Len(s) THEN <<piece>>
    ELSE IF s[i] \in {",", " "}
         THEN IF i > 1 /\ s[i - 1] \in {",", " "}
              THEN SplitFrom(s, i + 1, piece)
              ELSE <<piece>> \o SplitFrom(s, i + 1, <<>>)
         ELSE SplitFrom(s, i + 1, Append(piece, s[i]))

re_split(s) == SplitFrom(s, 1, <<>>)

\* [val.strip() for val in re.split(r"[, ]+", line) if val.strip()]
Percents(line) ==
    LET pieces == re_split(line)
        stripped == [i \in 1..Len(pieces) |-> strip(pieces[i])]
    IN SelectSeq(stripped, LAMBDA v : v # <<>>)

Row(loc, sched, prios) ==
    [location |-> loc, scheduled |-> sched, priorities |-> prios]

ParseState(loc, sched, prios, rows) ==
    [current_location |-> loc, current_scheduled |-> sched,
     current_priorities |-> prios, restrictions |-> rows]

\* Faulty variant: a location without percentage data is not emitted.
Flush_OnlyWithData(st) ==
    IF Truthy(st.current_location) /\ st.current_priorities # <<>>
    THEN Append(st.restrictions,
                Row(st.current_location.val, st.current_scheduled,
                    st.current_priorities))
    ELSE st.restrictions


\* if current_location: restrictions.append({...})
Flush(st) ==
    IF Truthy(st.current_location)
    THEN Append(st.restrictions,
                Row(st.current_location.val, st.current_scheduled,
                    st.current_priorities))
    ELSE st.restrictions

OnLocationRow(st, line) == ParseState(Some(line), None, <<>>, Flush(st))

OnScheduledRow(st, line) ==
    ParseState(st.current_location, Some(line), st.current_priorities,
               st.restrictions)

OnPercentRow(st, line) ==
    ParseState(st.current_location, st.current_scheduled,
               st.current_priorities \o Percents(line), st.restrictions)

LoopBody(st, line, kind) ==
    CASE kind = "LOCATION_ROW" -> OnLocationRow(st, line)
      [] kind = "SCHEDULED_ROW" -> OnScheduledRow(st, line)
      [] kind = "PERCENT_ROW" -> OnPercentRow(st, line)
      [] OTHER -> st

\* Faulty variant: the list is returned even when it is empty.
ReturnValue_AlwaysList(rows) == PyDictList(rows)


\* return restrictions if restrictions else None
ReturnValue(rows) == IF rows # <<>> THEN PyDictList(rows) ELSE PyNone

InitialParseState == ParseState(None, None, <<>>, <<>>)

RECURSIVE ParseLoop(_, _, _)
ParseLoop(ls, i, st) ==
    IF i > Len(ls) THEN st
    ELSE LET line == strip(ls[i])
             kind == classify_line_type(line)
         IN IF kind = "SEPARATOR" THEN st
            ELSE ParseLoop(ls, i + 1, LoopBody(st, line, kind))

parse_restriction_table(ls) ==
    ReturnValue(Flush(ParseLoop(ls, 1, InitialParseState)))

\* The same function, one loop iteration per step.
CurState ==
    ParseState(current_location, current_scheduled, current_priorities,
               restrictions)

Line == strip(lines[idx + 1])
Kind == classify_line_type(Line)

SetState(st) ==
    /\ current_location' = st.current_location
    /\ current_scheduled' = st.current_scheduled
    /\ current_priorities' = st.current_priorities
    /\ restrictions' = st.restrictions

\* Faulty variant: a SEPARATOR line is skipped instead of ending the scan.
Separator_Continue ==
    /\ pc = "loop" /\ idx < Len(lines)
    /\ Kind = "SEPARATOR"
    /\ idx' = idx + 1
    /\ UNCHANGED <<lines, current_location, current_scheduled,
                   current_priorities, restrictions, pc, result>>
    /\ UNCHANGED nvars
    /\ UNCHANGED dvars


Separator ==
    /\ pc = "loop" /\ idx < Len(lines)
    /\ Kind = "SEPARATOR"
    /\ pc' = "after_loop"
    /\ UNCHANGED <<lines, idx, current_location, current_scheduled,
                   current_priorities, restrictions, result>>
    /\ UNCHANGED nvars
    /\ UNCHANGED dvars

LocationRow ==
    /\ pc = "loop" /\ idx < Len(lines)
    /\ Kind = "LOCATION_ROW"
    /\ SetState(OnLocationRow(CurState, Line))
    /\ idx' = idx + 1
    /\ UNCHANGED <<lines, pc, result>>
    /\ UNCHANGED nvars
    /\ UNCHANGED dvars

ScheduledRow ==
    /\ pc = "loop" /\ idx < Len(lines)
    /\ Kind = "SCHEDULED_ROW"
    /\ SetState(OnScheduledRow(CurState, Line))
    /\ idx' = idx + 1
    /\ UNCHANGED <<lines, pc, result>>
    /\ UNCHANGED nvars
    /\ UNCHANGED dvars

PercentRow ==
    /\ pc = "loop" /\ idx < Len(lines)
    /\ Kind = "PERCENT_ROW"
    /\ SetState(OnPercentRow(CurState, Line))
    /\ idx' = idx + 1
    /\ UNCHANGED <<lines, pc, result>>
    /\ UNCHANGED nvars
    /\ UNCHANGED dvars

IgnoredRow ==
    /\ pc = "loop" /\ idx < Len(lines)
    /\ Kind \in {"HEADER", "UNKNOWN"}
    /\ idx' = idx + 1
    /\ UNCHANGED <<lines, current_location, current_scheduled,
                   current_priorities, restrictions, pc, result>>
    /\ UNCHANGED nvars
    /\ UNCHANGED dvars

Exhausted ==
    /\ pc = "loop" /\ idx = Len(lines)
    /\ pc' = "after_loop"
    /\ UNCHANGED <<lines, idx, current_location, current_scheduled,
                   current_priorities, restrictions, result>>
    /\ UNCHANGED nvars
    /\ UNCHANGED dvars

Return ==
    /\ pc = "after_loop"
    /\ restrictions' = Flush(CurState)
    /\ result' = ReturnValue(restrictions')
    /\ pc' = "done"
    /\ UNCHANGED <<lines, idx, current_location, current_scheduled,
                   current_priorities>>
    /\ UNCHANGED nvars
    /\ UNCHANGED dvars

\* ------------------------------------------------------------------------
\* classify_notice_type
\* ------------------------------------------------------------------------
classify_notice_type(raw_type) ==
    LET raw == lower(strip(raw_type)) IN
    IF Contains(raw, "capacity constraint") THEN "Capacity Constraint"
    ELSE IF Contains(raw, "operational flow order") \/ Contains(raw, "ofo")
         THEN "Operational Flow Order"
         ELSE "Other"

\* ------------------------------------------------------------------------
\* extract_restriction_block
\* ------------------------------------------------------------------------
\* str.splitlines(): a final empty line is not a line
splitlines(t) ==
    IF t # <<>> /\ t[Len(t)] = <<>> THEN SubSeq(t, 1, Len(t) - 1) ELSE t

\* least element of a non-empty set of naturals
Min(S) == CHOOSE m \in S : \A n \in S : m <= n

\* Faulty variant: without a start line nothing is returned.
extract_restriction_block_EmptyWithoutStart(t) ==
    LET ls == splitlines(t)
        starts == {i \in 1..Len(ls) :
                      Contains(lower(ls[i]), "restricted locations")}
    IN IF starts = {} THEN <<>>
       ELSE LET start_index == Min(starts)
                ends == {i \in (start_index + 1)..Len(ls) :
                            Contains(lower(ls[i]), "no-notice restrictions")}
            IN IF ends = {} THEN SubSeq(ls, start_index, Len(ls))
               ELSE SubSeq(ls, start_index, Min(ends) - 1)

extract_restriction_block(t) ==
    LET ls == splitlines(t)
        starts == {i \in 1..Len(ls) :
                      Contains(lower(ls[i]), "restricted locations")}
    IN IF starts = {} THEN ls
       ELSE LET start_index == Min(starts)
                ends == {i \in (start_index + 1)..Len(ls) :
                            Contains(lower(ls[i]), "no-notice restrictions")}
            IN IF ends = {} THEN SubSeq(ls, start_index, Len(ls))
               ELSE SubSeq(ls, start_index, Min(ends) - 1)

\* ------------------------------------------------------------------------
\* re.search over a text: the first line, then the first position in it
\* ------------------------------------------------------------------------
\* M(t, l, p): the pattern matches in line l of t starting at token p
FirstMatch(t, M(_, _, _)) ==
    LET hits == {l \in 1..Len(t) : \E p \in 1..Len(t[l]) : M(t, l, p)}
    IN IF hits = {} THEN <<0, 0>>
       ELSE LET l == Min(hits)
            IN <<l, Min({p \in 1..Len(t[l]) : M(t, l, p)})>>

Tok(s, i) == IF i \in 1..Len(s) THEN s[i] ELSE ""

\* ------------------------------------------------------------------------
\* parse_capacity_notice
\* ------------------------------------------------------------------------
\* r"For Gas Day (.+?)(?:,|\n)"
GasDayEnd(t, l, p) ==
    LET s == t[l]
        commas == {k \in (p + 5)..Len(s) : s[k] = ","}
    IN IF commas # {} THEN Min(commas) - 1
       ELSE IF l < Len(t) THEN Len(s)
       ELSE 0

MatchForGasDay(t, l, p) ==
    LET s == t[l] IN
    /\ Tok(s, p) = "For" /\ Tok(s, p + 1) = " "
    /\ Tok(s, p + 2) = "Gas Day" /\ Tok(s, p + 3) = " "
    /\ p + 4 <= Len(s)
    /\ GasDayEnd(t, l, p) >= p + 4

\* r"limited to approximately (\d+%) of their no-notice"
MatchNoNotice(t, l, p) ==
    LET s == t[l] IN
    /\ Tok(s, p) = "limited to approximately" /\ Tok(s, p + 1) = " "
    /\ Tok(s, p + 2) \in BarePercentToks
    /\ Tok(s, p + 3) = " " /\ Tok(s, p + 4) = "of their no-notice"

Insights(gd, nn, os, oe, lifted, lref, restr) ==
    [gas_day |-> gd, no_notice_pct |-> nn, ofo_start |-> os, ofo_end |-> oe,
     is_lifted |-> lifted, lift_ref_date |-> lref, restrictions |-> restr]

parse_capacity_notice(t) ==
    LET g == FirstMatch(t, MatchForGasDay)
        gas_day ==
            IF g[1] = 0 THEN None
            ELSE Some(strip(SubSeq(t[g[1]], g[2] + 4,
                                   GasDayEnd(t, g[1], g[2]))))
        n == FirstMatch(t, MatchNoNotice)
        no_notice_pct ==
            IF n[1] = 0 THEN None ELSE Some(<<t[n[1]][n[2] + 2]>>)
        restr == extract_restriction_block(t)
    IN Insights(gas_day, no_notice_pct, None, None, FALSE, None,
                PyStrList(restr))

\* ------------------------------------------------------------------------
\* parse_ofo_notice
\* ------------------------------------------------------------------------
MonthDayToks == {"July 1", "July 4"}
\* \w+ \d{1,2}, \d{4}
DateToks == {"July 3, 2024", "June 30, 2024"}
\* \d{1,2}:\d{2} (?:AM|PM) CCT, .*?\d{4}
TimestampToks == {"9:00 AM CCT, July 1, 2024", "9:00 AM CCT, July 5, 2024"}

\* r"Gas Day <month> ?\d{1,2}(?: - <month>? ?\d{1,2})?"
MatchGasDay(t, l, p) ==
    LET s == t[l] IN
    Tok(s, p) = "Gas Day" /\ Tok(s, p + 1) = " "
        /\ Tok(s, p + 2) \in MonthDayToks

GasDayHasRange(s, p) ==
    Tok(s, p + 3) = " " /\ Tok(s, p + 4) = "-" /\ Tok(s, p + 5) = " "
        /\ Tok(s, p + 6) \in MonthDayToks

GasDayMatchText(s, p) ==
    IF GasDayHasRange(s, p) THEN SubSeq(s, p, p + 6) ELSE SubSeq(s, p, p + 2)

\* re.findall within one line, from token p on
RECURSIVE FindAllInLine(_, _, _)
FindAllInLine(t, l, p) ==
    IF p > Len(t[l]) THEN <<>>
    ELSE IF MatchGasDay(t, l, p)
         THEN <<GasDayMatchText(t[l], p)>>
              \o FindAllInLine(t, l, p + Len(GasDayMatchText(t[l], p)))
         ELSE FindAllInLine(t, l, p + 1)

RECURSIVE FindAllGasDays(_, _)
FindAllGasDays(t, l) ==
    IF l > Len(t) THEN <<>>
    ELSE FindAllInLine(t, l, 1) \o FindAllGasDays(t, l + 1)

\* "; ".join(matches)
RECURSIVE JoinSemi(_)
JoinSemi(ms) ==
    IF Len(ms) = 1 THEN ms[1]
    ELSE ms[1] \o <<"; ">> \o JoinSemi(Tail(ms))

\* `p in text.lower()` for a phrase p that is one token
TextContains(t, p) == \E l \in 1..Len(t) : Contains(lower(t[l]), p)

\* "effective immediately" in text.lower()
TextHasEffectiveImmediately(t) ==
    \E l \in 1..Len(t) : \E p \in 1..Len(t[l]) :
        LET s == lower(t[l]) IN
        Tok(s, p) = "effective" /\ Tok(s, p + 1) = " "
            /\ Tok(s, p + 2) = "immediately"

\* r"effective (<timestamp>)", re.IGNORECASE
MatchOfoStart(t, l, p) ==
    LET s == t[l] IN
    LowerTok(Tok(s, p)) = "effective" /\ Tok(s, p + 1) = " "
        /\ Tok(s, p + 2) \in TimestampToks

\* r"remain in effect until (<timestamp>)", re.IGNORECASE
MatchOfoEnd(t, l, p) ==
    LET s == t[l] IN
    LowerTok(Tok(s, p)) = "remain in effect until" /\ Tok(s, p + 1) = " "
        /\ Tok(s, p + 2) \in TimestampToks

\* r"issued on (\w+ \d{1,2}, \d{4})"
MatchIssuedOn(t, l, p) ==
    LET s == t[l] IN
    Tok(s, p) = "issued on" /\ Tok(s, p + 1) = " "
        /\ Tok(s, p + 2) \in DateToks

\* r"Effective (?:immediately|on )?(?:at )?(\w+ \d{1,2}, \d{4})",
\* re.IGNORECASE: the positions at which the date group can start
LiftEffGroupStarts(s, p) ==
    LET low == lower(s)
        a == {p + 2}
             \cup (IF Tok(low, p + 2) = "immediately" THEN {p + 3} ELSE {})
             \cup (IF Tok(low, p + 2) = "on" /\ Tok(s, p + 3) = " "
                   THEN {p + 4} ELSE {})
        b == a \cup {q + 2 : q \in {r \in a : Tok(low, r) = "at"
                                               /\ Tok(s, r + 1) = " "}}
    IN {q \in b : Tok(s, q) \in DateToks}

MatchLiftEff(t, l, p) ==
    LET s == t[l] IN
    LowerTok(Tok(s, p)) = "effective" /\ Tok(s, p + 1) = " "
        /\ LiftEffGroupStarts(s, p) # {}

OfoFields(gd, os, oe, lifted, lref) ==
    [gas_day |-> gd, ofo_start |-> os, ofo_end |-> oe, is_lifted |-> lifted,
     lift_ref_date |-> lref]

\* Faulty variant: "effective immediately" is tested before the
\* "Effective <date>" phrase.
LiftBlock_ImmediateFirst(t, date, ofo_end) ==
    LET i == FirstMatch(t, MatchIssuedOn)
        lift_ref_date ==
            IF i[1] = 0 THEN None ELSE Some(<<t[i[1]][i[2] + 2]>>)
        e == FirstMatch(t, MatchLiftEff)
        new_end ==
            IF TextHasEffectiveImmediately(t) /\ Truthy(date)
            THEN date
            ELSE IF e[1] # 0
                 THEN Some(<<t[e[1]][Min(LiftEffGroupStarts(t[e[1]], e[2]))]>>)
                 ELSE ofo_end
    IN [ofo_end |-> new_end, is_lifted |-> TRUE,
        lift_ref_date |-> lift_ref_date]


\* the block under `if "lifting the operational flow order" in text.lower()`
LiftBlock(t, date, ofo_end) ==
    LET i == FirstMatch(t, MatchIssuedOn)
        lift_ref_date ==
            IF i[1] = 0 THEN None ELSE Some(<<t[i[1]][i[2] + 2]>>)
        e == FirstMatch(t, MatchLiftEff)
        new_end ==
            IF e[1] # 0
            THEN Some(<<t[e[1]][Min(LiftEffGroupStarts(t[e[1]], e[2]))]>>)
            ELSE IF TextHasEffectiveImmediately(t) /\ Truthy(date)
                 THEN date
                 ELSE ofo_end
    IN [ofo_end |-> new_end, is_lifted |-> TRUE,
        lift_ref_date |-> lift_ref_date]

parse_ofo_notice(t, date) ==
    LET gas_day_matches == FindAllGasDays(t, 1)
        gas_day ==
            IF gas_day_matches = <<>> THEN None
            ELSE IF TextContains(t, "until further notice")
                 THEN Some(JoinSemi(gas_day_matches)
                           \o <<" (Until Further Notice)">>)
                 ELSE Some(JoinSemi(gas_day_matches))
        s == FirstMatch(t, MatchOfoStart)
        ofo_start == IF s[1] = 0 THEN None ELSE Some(<<t[s[1]][s[2] + 2]>>)
        u == FirstMatch(t, MatchOfoEnd)
        ofo_end == IF u[1] = 0 THEN None ELSE Some(<<t[u[1]][u[2] + 2]>>)
    IN IF TextContains(t, "lifting the operational flow order")
       THEN LET lift == LiftBlock(t, date, ofo_end)
            IN OfoFields(gas_day, ofo_start, lift.ofo_end, lift.is_lifted,
                         lift.lift_ref_date)
       ELSE OfoFields(gas_day, ofo_start, ofo_end, FALSE, None)

\* ------------------------------------------------------------------------
\* extract_notice_insights
\* ------------------------------------------------------------------------
AllAbsent == Insights(None, None, None, None, FALSE, None, PyEmptyList)

\* Faulty variant: only None is caught (`if text is None`).
NotText_OnlyNone(t) == t.none


\* `not text`: None or the empty string
NotText(t) == t.none \/ t.lines = <<>> \/ t.lines = <<(<<>>)>>

IsOfoType(nt) ==
    Contains(lower(nt), "operational flow order") \/ Contains(lower(nt), "ofo")

IsCapacityType(nt) == Contains(lower(nt), "capacity constraint")

GuardClause ==
    /\ npc = "call"
    /\ NotText(text)
    /\ insights' = AllAbsent
    /\ npc' = "returned"
    /\ UNCHANGED <<text, notice_type, notice_date, invoked>>
    /\ UNCHANGED pvars
    /\ UNCHANGED dvars

DispatchOFO ==
    /\ npc = "call"
    /\ ~NotText(text)
    /\ IsOfoType(notice_type)
    /\ invoked' = "parse_ofo_notice"
    /\ LET r == parse_ofo_notice(text.lines, notice_date)
       IN insights' = Insights(r.gas_day, None, r.ofo_start, r.ofo_end,
                               r.is_lifted, r.lift_ref_date, PyEmptyList)
    /\ npc' = "returned"
    /\ UNCHANGED <<text, notice_type, notice_date>>
    /\ UNCHANGED pvars
    /\ UNCHANGED dvars

DispatchCapacity ==
    /\ npc = "call"
    /\ ~NotText(text)
    /\ ~IsOfoType(notice_type)
    /\ IsCapacityType(notice_type)
    /\ invoked' = "parse_capacity_notice"
    /\ insights' = parse_capacity_notice(text.lines)
    /\ npc' = "returned"
    /\ UNCHANGED <<text, notice_type, notice_date>>
    /\ UNCHANGED pvars
    /\ UNCHANGED dvars

DispatchOther ==
    /\ npc = "call"
    /\ ~NotText(text)
    /\ ~IsOfoType(notice_type)
    /\ ~IsCapacityType(notice_type)
    /\ insights' = AllAbsent
    /\ npc' = "returned"
    /\ UNCHANGED <<text, notice_type, notice_date, invoked>>
    /\ UNCHANGED pvars
    /\ UNCHANGED dvars

\* Lines of notice bodies
NoticeLines == {
    <<"For", " ", "Gas Day", " ", "July 4", ",", " ", "2024", " ",
      "limited to approximately", " ", "85%", " ", "of their no-notice">>,
    <<"Restricted Locations", " ", "Scheduled and Sealed">>,
    <<"Algonquin Citygate">>,
    <<"No-Notice Restrictions", " ", "apply">>,
    <<"Gas Day", " ", "July 1", " ", "-", " ", "July 4", " ",
      "until further notice">>,
    <<"Lifting the Operational Flow Order", " ", "issued on", " ",
      "June 30, 2024">>,
    <<"Effective", " ", "on", " ", "July 3, 2024">>,
    <<"effective", " ", "immediately">>,
    <<"effective", " ", "9:00 AM CCT, July 1, 2024">>,
    <<"remain in effect until", " ", "9:00 AM CCT, July 5, 2024">>,
    <<>> }

\* Category labels: the classifier's outputs and raw labels
NoticeTypes == {
    <<"Capacity Constraint">>,
    <<"Operational Flow Order">>,
    <<"Other">>,
    <<" ", "CAPACITY CONSTRAINT", " ", "Notice">>,
    <<"OFO">>,
    <<"Capacity Constraint", " ", "-", " ", "OFO">> }

NoticeDates == {None, Some(<<>>), Some(<<"11/01/2026">>)}

NoticeTexts ==
    {[none |-> TRUE, lines |-> <<>>]}
    \cup {[none |-> FALSE, lines |-> ls] :
             ls \in SeqsUpTo(NoticeLines, MaxTextLines)}

\* a database file without tables
DbIdle ==
    /\ tables = {}
    /\ notices_table = <<>>
    /\ restrictions_table = <<>>
    /\ runs = 0

ParserIdle ==
    /\ lines = <<>>
    /\ idx = 0
    /\ current_location = None
    /\ current_scheduled = None
    /\ current_priorities = <<>>
    /\ restrictions = <<>>
    /\ pc = "idle"
    /\ result = PyNone

InitNotice ==
    /\ text \in NoticeTexts
    /\ notice_type \in NoticeTypes
    /\ notice_date \in NoticeDates
    /\ npc = "call"
    /\ invoked = "none"
    /\ insights = AllAbsent
    /\ ParserIdle
    /\ DbIdle

NextNotice ==
    \/ GuardClause
    \/ DispatchOFO
    \/ DispatchCapacity
    \/ DispatchOther

SpecNotice == InitNotice /\ [][NextNotice]_vars

\* Lines the table parser is run on
TableLines == {
    <<"Restricted Locations", " ", "Scheduled and Sealed">>,
    <<"Restricted Locations">>,
    <<"Algonquin Citygate">>,
    <<" ", "Stony Point", "\t">>,
    <<"Yes">>,
    <<"NO", " ">>,
    <<"50%", ",", " ", "40%">>,
    <<"(10%", " ", "20%", ",", "30%", " ", " ", "60%", "\t", "100%", ",">>,
    <<"100%", " ", "Notice">>,
    <<>>,
    <<"No-Notice Restrictions", " ", "apply">> }

NoticeIdle ==
    /\ text = [none |-> TRUE, lines |-> <<>>]
    /\ notice_type = <<>>
    /\ notice_date = None
    /\ npc = "idle"
    /\ invoked = "none"
    /\ insights = AllAbsent

Init ==
    /\ lines \in SeqsUpTo(TableLines, MaxLines)
    /\ idx = 0
    /\ current_location = None
    /\ current_scheduled = None
    /\ current_priorities = <<>>
    /\ restrictions = <<>>
    /\ pc = "loop"
    /\ result = PyNone
    /\ NoticeIdle
    /\ DbIdle

Next ==
    \/ Separator
    \/ LocationRow
    \/ ScheduledRow
    \/ PercentRow
    \/ IgnoredRow
    \/ Exhausted
    \/ Return

Spec == Init /\ [][Next]_vars

\* ------------------------------------------------------------------------
\* get_notices_df: the notice dicts handed to store_notice
\* ------------------------------------------------------------------------
\* dict.get(key, default)
DictGet(dict, key, default) ==
    IF key \in DOMAIN dict THEN dict[key] ELSE default

\* extract_notice_insights as a function of its arguments
extract_notice_insights(t, nt, date) ==
    IF NotText(t) THEN AllAbsent
    ELSE IF IsOfoType(nt)
         THEN LET r == parse_ofo_notice(t.lines, date)
              IN Insights(r.gas_day, None, r.ofo_start, r.ofo_end,
                          r.is_lifted, r.lift_ref_date, PyEmptyList)
         ELSE IF IsCapacityType(nt) THEN parse_capacity_notice(t.lines)
         ELSE AllAbsent

base_url == <<"https://infopost.enbridge.com/infopost/">>

NoText == [none |-> TRUE, lines |-> <<>>]
PageText(ls) == [none |-> FALSE, lines |-> ls]

\* One row of the notices listing: the table cells, the href of the subject
\* link (None without a link) and the text of the detail page (NoText when
\* the request fails).
ListingRow(raw_type, date, number, subject, href, page) ==
    [raw_type |-> raw_type, date |-> date, number |-> number,
     subject |-> subject, href |-> href, page |-> page]

\* the dict built for one listing row
NoticeDict(row) ==
    LET type == <<classify_notice_type(strip(row.raw_type))>>
        link == IF row.href.none THEN None
                ELSE Some(base_url \o row.href.val)
        notice_text == IF link.none THEN NoText ELSE row.page
        ins == extract_notice_insights(notice_text, type, Some(row.date))
    IN ("Type" :> Some(type))
       @@ ("Date" :> Some(row.date))
       @@ ("Notice Number" :> Some(row.number))
       @@ ("Subject" :> Some(row.subject))
       @@ ("Detail Link" :> link)
       @@ ("Full Notice" :> notice_text)
       @@ ("Gas Day" :> ins.gas_day)
       @@ ("No-Notice %" :> ins.no_notice_pct)
       @@ ("OFO Start" :> ins.ofo_start)
       @@ ("OFO End" :> ins.ofo_end)
       @@ ("OFO Lifted" :> ins.is_lifted)
       @@ ("OFO Lift Ref Date" :> ins.lift_ref_date)
       @@ ("Restrictions" :> ins.restrictions)

Listing == {
    ListingRow(<<" ", "CAPACITY CONSTRAINT", " ", "Notice">>,
               <<"11/01/2026">>, <<"1001">>, <<"Capacity Constraint 1001">>,
               Some(<<"NoticeListDetail.asp?id=1001">>),
               PageText(<<
                   <<"Restricted Locations", " ", "Scheduled and Sealed">>,
                   <<"Algonquin Citygate">>,
                   <<"Yes">>,
                   <<"50%", ",", " ", "40%">>,
                   <<"No-Notice Restrictions", " ", "apply">> >>)),
    ListingRow(<<"Capacity Constraint">>,
               <<"11/01/2026">>, <<"1002">>, <<"Capacity Constraint 1002">>,
               Some(<<"NoticeListDetail.asp?id=1002">>),
               PageText(<< <<" ", "Stony Point", "\t">> >>)),
    ListingRow(<<"Capacity Constraint">>,
               <<"10/31/2026">>, <<"1003">>, <<"Capacity Constraint 1003">>,
               None, NoText),
    ListingRow(<<"OFO">>,
               <<"10/30/2026">>, <<"1004">>, <<"OFO 1004">>,
               Some(<<"NoticeListDetail.asp?id=1004">>),
               PageText(<< <<"Lifting the Operational Flow Order", " ",
                             "issued on", " ", "June 30, 2024">> >>)) }

ScrapedNotices == {NoticeDict(row) : row \in Listing}

\* ------------------------------------------------------------------------
\* db_utils.py
\* ------------------------------------------------------------------------
\* hashlib.sha256(url.encode()).hexdigest() if url else None; distinct urls
\* have distinct digests
hash_url(url) == IF Truthy(url) THEN Some(<<"sha256">> \o url.val) ELSE None

\* CREATE TABLE IF NOT EXISTS notices
initialize_db ==
    /\ tables' = tables \cup {"notices"}
    /\ UNCHANGED <<notices_table, restrictions_table, runs>>
    /\ UNCHANGED pvars
    /\ UNCHANGED nvars

\* CREATE TABLE IF NOT EXISTS restrictions
initialize_restriction_table ==
    /\ tables' = tables \cup {"restrictions"}
    /\ UNCHANGED <<notices_table, restrictions_table, runs>>
    /\ UNCHANGED pvars
    /\ UNCHANGED nvars

\* the row of the INSERT INTO notices
NoticeRow(id, notice) ==
    [id |-> id,
     type |-> DictGet(notice, "Type", None),
     date |-> DictGet(notice, "Date", None),
     notice_number |-> DictGet(notice, "Notice Number", None),
     subject |-> DictGet(notice, "Subject", None),
     detail_link |-> DictGet(notice, "Detail Link", None),
     full_notice |-> DictGet(notice, "Full Notice", NoText),
     gas_day |-> DictGet(notice, "Gas Day", None),
     no_notice_pct |-> DictGet(notice, "No-Notice %", None),
     ofo_start |-> DictGet(notice, "OFO Start", None),
     ofo_end |-> DictGet(notice, "OFO End", None),
     ofo_lifted |-> IF DictGet(notice, "OFO Lifted", FALSE) THEN 1 ELSE 0,
     ofo_lift_ref_date |-> DictGet(notice, "OFO Lift Ref Date", None),
     url_hash |-> hash_url(DictGet(notice, "Detail Link", Some(<<>>)))]

\* url_hash TEXT UNIQUE: NULLs never conflict
ViolatesUnique(table, row) ==
    /\ ~row.url_hash.none
    /\ \E i \in 1..Len(table) : table[i].url_hash = row.url_hash

\* the notices table after store_notice(notice); an IntegrityError is
\* caught and leaves the table as it was
StoredNotices(table, notice) ==
    LET row == NoticeRow(Len(table) + 1, notice)
    IN IF ViolatesUnique(table, row) THEN table ELSE Append(table, row)

store_notice(notice) ==
    /\ "notices" \in tables
    /\ Len(notices_table) < MaxNotices
    /\ notices_table' = StoredNotices(notices_table, notice)
    /\ runs' = IF notices_table' = notices_table THEN runs ELSE 0
    /\ UNCHANGED <<tables, restrictions_table>>
    /\ UNCHANGED pvars
    /\ UNCHANGED nvars

TierColumns == <<"AO", "IT", "3B", "3A", "2C", "2B", "2A", "1">>

\* the row of the INSERT INTO restrictions
RestrictionRow(id, notice_number, entry) ==
    ("id" :> id)
    @@ ("notice_number" :> notice_number)
    @@ ("location" :> DictGet(entry, "location", <<>>))
    @@ ("Scheduled" :> DictGet(entry, "Scheduled", <<>>))
    @@ ("Sealed" :> DictGet(entry, "Sealed", <<>>))
    @@ [c \in {TierColumns[k] : k \in 1..Len(TierColumns)} |->
           DictGet(entry, c, <<>>)]

\* the restrictions table after store_restrictions(notice_number, data)
RECURSIVE InsertEntries(_, _, _)
InsertEntries(table, notice_number, entries) ==
    IF entries = <<>> THEN table
    ELSE InsertEntries(
             Append(table,
                    RestrictionRow(Len(table) + 1, notice_number,
                                   Head(entries))),
             notice_number, Tail(entries))

store_restrictions(table, notice_number, restriction_data) ==
    IF restriction_data.tag = "None" \/ restriction_data.dicts = <<>>
    THEN table
    ELSE InsertEntries(table, notice_number, restriction_data.dicts)

\* ------------------------------------------------------------------------
\* reparse_all_restrictions
\* ------------------------------------------------------------------------
\* SQLite TRIM removes spaces only
RECURSIVE sql_ltrim(_)
sql_ltrim(s) == IF s # <<>> /\ Head(s) = " " THEN sql_ltrim(Tail(s)) ELSE s

RECURSIVE sql_rtrim(_)
sql_rtrim(s) ==
    IF s # <<>> /\ s[Len(s)] = " "
    THEN sql_rtrim(SubSeq(s, 1, Len(s) - 1))
    ELSE s

\* WHERE LOWER(TRIM(type)) = 'capacity constraint'
IsCapacityRow(row) ==
    /\ ~row.type.none
    /\ lower(sql_rtrim(sql_ltrim(row.type.val))) = <<"capacity constraint">>

\* SELECT notice_number, full_notice FROM notices WHERE ...
SelectCapacityNotices(table) == SelectSeq(table, IsCapacityRow)

\* the body of the loop for one selected notice; a notice without text
\* raises in extract_restriction_block and the except clause skips it
ReparseOne(table, row) ==
    IF row.full_notice.none THEN table
    ELSE LET restriction_lines ==
                 extract_restriction_block(row.full_notice.lines)
             restriction_data == parse_restriction_table(restriction_lines)
         IN store_restrictions(table, row.notice_number, restriction_data)

RECURSIVE ReparseRows(_, _)
ReparseRows(table, df) ==
    IF df = <<>> THEN table
    ELSE ReparseRows(ReparseOne(table, Head(df)), Tail(df))

reparse_all_restrictions ==
    /\ "notices" \in tables
    /\ runs < MaxRuns
    /\ tables' = tables \cup {"restrictions"}
    /\ restrictions_table' =
           ReparseRows(restrictions_table,
                       SelectCapacityNotices(notices_table))
    /\ runs' = runs + 1
    /\ UNCHANGED notices_table
    /\ UNCHANGED pvars
    /\ UNCHANGED nvars

InitDb ==
    /\ DbIdle
    /\ ParserIdle
    /\ NoticeIdle

NextDb ==
    \/ initialize_db
    \/ initialize_restriction_table
    \/ \E notice \in ScrapedNotices : store_notice(notice)
    \/ reparse_all_restrictions

SpecDb == InitDb /\ [][NextDb]_vars

\* ========================================================================
\* Properties
\* ========================================================================
TierCount == 8

IsSeparatorLine(l) == classify_line_type(l) = "SEPARATOR"

FirstSeparator(ls) ==
    IF \E i \in 1..Len(ls) : IsSeparatorLine(ls[i])
    THEN Min({i \in 1..Len(ls) : IsSeparatorLine(ls[i])})
    ELSE Len(ls) + 1

PrefixBeforeSeparator(ls) == SubSeq(ls, 1, FirstSeparator(ls) - 1)

LocationLines(ls) ==
    SelectSeq(PrefixBeforeSeparator(ls),
              LAMBDA l : classify_line_type(l) = "LOCATION_ROW")

RowLocations(res) == [i \in 1..Len(res.dicts) |-> res.dicts[i].location]

\* the trimmed line begins, case-insensitively, with "restricted locations"
BeginsWithHeaderPhrase(l) ==
    StartsWith(lower(strip(l)), "restricted locations")

\* C1: every row the table parser returns has exactly 8 priority entries
\* (padded with empty strings, or cut after the 8th token).
C1_EightPriorities ==
    pc = "done" =>
        \A i \in 1..Len(result.dicts) :
            Len(result.dicts[i].priorities) = TierCount

\* C2: the restrictions field of the capacity extractor is the table parser
\* applied to the block extractor's output.
C2_RestrictionsAreParsedRows ==
    (npc = "returned" /\ invoked = "parse_capacity_notice") =>
        insights.restrictions =
            parse_restriction_table(extract_restriction_block(text.lines))

ExtractorOf(category) ==
    CASE category = "Capacity Constraint" -> "parse_capacity_notice"
      [] category = "Operational Flow Order" -> "parse_ofo_notice"
      [] OTHER -> "none"

\* C3: for non-empty text the dispatcher runs the extractor of the category
\* that classify_notice_type assigns to the label.
C3_DispatchFollowsClassifier ==
    (npc = "returned" /\ ~(text.none \/ text.lines \in {<<>>, <<(<<>>)>>})) =>
        invoked = ExtractorOf(classify_notice_type(notice_type))

\* C4: in every returned record the fields that do not belong to the
\* notice's category are absent.
C4_IrrelevantFieldsAbsent ==
    npc = "returned" =>
        LET category == classify_notice_type(notice_type) IN
        /\ category = "Operational Flow Order" =>
              /\ insights.no_notice_pct = None
              /\ insights.restrictions = PyEmptyList
        /\ category = "Capacity Constraint" =>
              /\ insights.ofo_start = None
              /\ insights.ofo_end = None
              /\ insights.lift_ref_date = None
              /\ insights.is_lifted = FALSE
        /\ category = "Other" => insights = AllAbsent

\* C5: the table parser emits exactly one row per LOCATION_ROW line before
\* the first SEPARATOR, in input order, located at the trimmed line.
C5_OneRowPerLocation ==
    pc = "done" =>
        RowLocations(result) =
            [i \in 1..Len(LocationLines(lines)) |->
                strip(LocationLines(lines)[i])]

C5_Witness ==
    /\ pc = "done"
    /\ \E i \in 1..(Len(PrefixBeforeSeparator(lines)) - 1) :
          /\ classify_line_type(lines[i]) = "LOCATION_ROW"
          /\ classify_line_type(lines[i + 1]) = "LOCATION_ROW"
          /\ lines[i] # strip(lines[i])
    /\ Len(result.dicts) >= 2

\* The "remain in effect until" extraction of a text.
RemainExtraction(t) ==
    LET u == FirstMatch(t, MatchOfoEnd)
    IN IF u[1] = 0 THEN None ELSE Some(<<t[u[1]][u[2] + 2]>>)

HasEffectiveDatePhrase(t) == FirstMatch(t, MatchLiftEff)[1] # 0

EffectiveDate(t) ==
    LET e == FirstMatch(t, MatchLiftEff)
    IN Some(<<t[e[1]][Min(LiftEffGroupStarts(t[e[1]], e[2]))]>>)

\* C6: how the OFO extractor decides ofo_end, with and without the lift
\* phrase.
C6_OfoEndDecision ==
    (npc = "returned" /\ invoked = "parse_ofo_notice") =>
        LET t == text.lines IN
        IF TextContains(t, "lifting the operational flow order")
        THEN /\ insights.is_lifted = TRUE
             /\ insights.ofo_end =
                   IF HasEffectiveDatePhrase(t) THEN EffectiveDate(t)
                   ELSE IF TextHasEffectiveImmediately(t)
                           /\ Truthy(notice_date)
                        THEN notice_date
                        ELSE RemainExtraction(t)
        ELSE /\ insights.is_lifted = FALSE
             /\ insights.lift_ref_date = None
             /\ insights.ofo_end = RemainExtraction(t)

C6_Witness ==
    /\ npc = "returned" /\ invoked = "parse_ofo_notice"
    /\ TextContains(text.lines, "lifting the operational flow order")
    /\ ~HasEffectiveDatePhrase(text.lines)
    /\ TextHasEffectiveImmediately(text.lines)
    /\ Truthy(notice_date)
    /\ RemainExtraction(text.lines) # None
    /\ insights.is_lifted = TRUE
    /\ insights.ofo_end = notice_date

NoLocationBeforeSeparator(ls) == LocationLines(ls) = <<>>

\* C7 as stated: with no LOCATION_ROW before the first SEPARATOR the table
\* parser returns an empty sequence.
C7_EmptySequence ==
    (pc = "done" /\ NoLocationBeforeSeparator(lines)) => result = PyEmptyList

\* C7 amended: with no LOCATION_ROW before the first SEPARATOR the table
\* parser returns None (its "no rows" value), and it returns a non-empty
\* list otherwise.
C7_NoRowsIsNone ==
    pc = "done" =>
        (NoLocationBeforeSeparator(lines) <=> result = PyNone)

C7_Witness ==
    /\ pc = "done"
    /\ Len(lines) = 2
    /\ classify_line_type(lines[1]) = "HEADER"
    /\ classify_line_type(lines[2]) = "SEPARATOR"
    /\ result = PyNone

\* C8: with empty or absent text the dispatcher returns the all-absent
\* record and invokes no extractor, whatever the label and the date.
C8_EmptyTextAllAbsent ==
    (npc = "returned" /\ (text.none \/ text.lines \in {<<>>, <<(<<>>)>>})) =>
        /\ insights.gas_day = None
        /\ insights.no_notice_pct = None
        /\ insights.ofo_start = None
        /\ insights.ofo_end = None
        /\ insights.lift_ref_date = None
        /\ insights.is_lifted = FALSE
        /\ insights.restrictions = PyEmptyList
        /\ invoked = "none"

C8_Witness ==
    /\ npc = "returned"
    /\ ~text.none /\ text.lines = <<>>
    /\ classify_notice_type(notice_type) = "Operational Flow Order"
    /\ Truthy(notice_date)
    /\ insights = AllAbsent

\* C9: the table parser's result is its result on the lines strictly before
\* the first SEPARATOR; the record open at the SEPARATOR is still emitted.
C9_StopsAtFirstSeparator ==
    pc = "done" =>
        result = parse_restriction_table(PrefixBeforeSeparator(lines))

C9_Witness ==
    /\ pc = "done"
    /\ FirstSeparator(lines) < Len(lines)
    /\ \E j \in (FirstSeparator(lines) + 1)..Len(lines) :
          classify_line_type(lines[j]) \in
              {"LOCATION_ROW", "SCHEDULED_ROW", "PERCENT_ROW"}
    /\ Len(result.dicts) = 1
    /\ \/ result.dicts[1].scheduled # None
       \/ result.dicts[1].priorities # <<>>

\* C10: a trimmed line that begins with "restricted locations" and matches
\* no SEPARATOR rule is a HEADER, so no emitted row is located at one.
C10_HeaderPrefix ==
    pc = "done" =>
        /\ \A i \in 1..Len(lines) :
              (BeginsWithHeaderPhrase(lines[i]) /\ ~IsSeparatorLine(lines[i]))
                  => classify_line_type(lines[i]) = "HEADER"
        /\ \A i \in 1..Len(result.dicts) :
              ~BeginsWithHeaderPhrase(result.dicts[i].location)

\* no line of the text contains "restricted locations"
NoHeaderPhrase(t) == ~TextContains(t, "restricted locations")

\* the capacity extractor has run on a text without the header phrase
C11_Case ==
    /\ npc = "returned" /\ invoked = "parse_capacity_notice"
    /\ NoHeaderPhrase(text.lines)

\* C11 as stated: for a text in which no line contains "restricted
\* locations" the block extractor returns the full line sequence and the
\* table parser applied to it emits no row.
C11_NoHeaderNoRows ==
    C11_Case =>
        /\ insights.restrictions = PyStrList(splitlines(text.lines))
        /\ parse_restriction_table(insights.restrictions.strs)
               \in {PyNone, PyEmptyList}

\* C11 amended: for such a text the block extractor returns the full line
\* sequence, and the table parser applied to it emits one row per
\* LOCATION_ROW line before the first SEPARATOR; its result is None only
\* when there is no such line.
C11_NoHeaderRowsPerLocation ==
    C11_Case =>
        LET block == insights.restrictions.strs
            parsed == parse_restriction_table(block)
        IN /\ insights.restrictions = PyStrList(splitlines(text.lines))
           /\ RowLocations(parsed) =
                 [i \in 1..Len(LocationLines(splitlines(text.lines))) |->
                     strip(LocationLines(splitlines(text.lines))[i])]
           /\ parsed = PyNone <=>
                 LocationLines(splitlines(text.lines)) = <<>>

C11_Witness ==
    /\ C11_Case
    /\ Len(text.lines) >= 2
    /\ insights.restrictions.strs = text.lines
    /\ Len(parse_restriction_table(insights.restrictions.strs).dicts) >= 1

\* a row without its id column
WithoutId(row) == [c \in DOMAIN row \ {"id"} |-> row[c]]

WithoutIds(table) == [i \in 1..Len(table) |-> WithoutId(table[i])]

\* the rows parse_restriction_table gives for a stored notice
ParsedRows(nrow) ==
    IF nrow.full_notice.none THEN <<>>
    ELSE parse_restriction_table(
             extract_restriction_block(nrow.full_notice.lines)).dicts

\* the stored row carries the parsed row: notice number, location,
\* scheduled value, and the priorities in tier order (empty where the
\* parsed row has no value)
CarriesRow(stored, nrow, parsed) ==
    /\ stored["notice_number"] = nrow.notice_number
    /\ stored["location"] = parsed.location
    /\ Some(stored["Scheduled"]) =
           (IF parsed.scheduled.none THEN Some(<<>>) ELSE parsed.scheduled)
    /\ \A k \in 1..Len(TierColumns) :
           stored[TierColumns[k]] =
               (IF k <= Len(parsed.priorities) THEN parsed.priorities[k]
                ELSE <<>>)

\* C12: every row of the restrictions table carries the notice number,
\* location, scheduled value and tier-ordered priorities of a row that
\* parse_restriction_table produced for a stored notice.
C12_StoredRowCarriesParsedRow ==
    \A i \in 1..Len(restrictions_table) :
        \E j \in 1..Len(notices_table) :
            \E k \in 1..Len(ParsedRows(notices_table[j])) :
                CarriesRow(restrictions_table[i], notices_table[j],
                           ParsedRows(notices_table[j])[k])

\* C13: after one or more consecutive runs of reparse_all_restrictions over
\* an unchanged notices table, the restrictions table holds exactly the
\* rows of one run.
C13_ReparseIdempotent ==
    runs >= 1 =>
        WithoutIds(restrictions_table) =
            WithoutIds(ReparseRows(<<>>,
                                   SelectCapacityNotices(notices_table)))

\* C14: the notices table holds at most one row per notice, so a
\* store_notice call for a stored notice never adds a row.
C14_OneRowPerNotice ==
    \A i, j \in 1..Len(notices_table) :
        i # j => WithoutId(notices_table[i]) # WithoutId(notices_table[j])

====
